---------------------------- MODULE Spec2Model ----------------------------
(***************************************************************************)
(* A model of the image description service: the colour naming and the    *)
(* dominant-colour extraction of image_analysis/utils.py, the serializer  *)
(* of image_analysis/serializers.py, the description service of           *)
(* image_analysis/services.py and the describe_image view of              *)
(* image_analysis/views.py.                                               *)
(*                                                                         *)
(* Six specifications share the module:                                    *)
(*   SpecName      get_color_name applied to an RGB triple;                *)
(*   SpecColors    get_dominant_colors applied to a pixel list;            *)
(*   SpecAnalysis  _analyze_image_content and _generate_smart_description  *)
(*                 applied to a list of colour names and a metadata dict;  *)
(*   SpecService   LLMService().get_description applied to a prompt;       *)
(*   SpecReply     the same call, and the 200 describe_image builds from   *)
(*                 its result;                                             *)
(*   Spec          one POST /describe/ request through describe_image.     *)
(***************************************************************************)
EXTENDS Integers, Sequences, FiniteSets, TLC

VARIABLES
    \* ---- get_color_name call (SpecName)
    rgb,        \* the argument (r, g, b)
    cname,      \* the returned name, "" before the call
    \* ---- get_dominant_colors call (SpecColors)
    pixels,     \* list(image.getdata())
    num_colors, \* the num_colors argument
    filtered_pixels, \* the candidate pool built by the scan
    scan_i,     \* the index of the next pixel of the scan
    dominant,   \* the returned list of swatches
    dpc,        \* "scan" during the loop over pixels, "returned" at the end
    \* ---- one POST /describe/ request (Spec)
    settings,   \* django.conf.settings
    request,    \* request.data
    pc,         \* the position of describe_image
    metadata,   \* the result of extract_image_metadata
    prompt,     \* the result of generate_description_prompt
    detected_colors, \* what _extract_detected_colors returned
    llm_response,    \* the result of LLMService.get_description
    calls,      \* how often extract_image_metadata and get_description were
                \* entered, a request was sent to a remote provider, and
                \* get_description raised, and the providers sent to in order
    response,   \* the Response returned by describe_image
    \* ---- the content analysis of LLMService (SpecAnalysis)
    arg_colors, \* the colors argument, a list of colour names
    arg_metadata, \* the metadata argument, a dict as
                \* _extract_metadata_from_prompt builds it
    image_analysis, \* the dict returned by _analyze_image_content, or the
                \* analysis argument of _generate_smart_description
    smart_description, \* what _generate_smart_description returned
    apc         \* "start", "analysed", "described"; or "given", then
                \* "described_given", for an analysis passed by a caller

nameVars == <<rgb, cname>>
analysisVars ==
    <<arg_colors, arg_metadata, image_analysis, smart_description, apc>>
colorVars == <<pixels, num_colors, filtered_pixels, scan_i, dominant, dpc>>
viewVars == <<settings, request, pc, metadata, prompt, detected_colors,
              llm_response, calls, response>>
vars == <<rgb, cname, pixels, num_colors, filtered_pixels, scan_i, dominant, dpc,
          settings, request, pc, metadata, prompt, detected_colors,
          llm_response, calls, response,
          arg_colors, arg_metadata, image_analysis, smart_description, apc>>

--------------------------------------------------------------------------
(* Arithmetic helpers *)

Abs(x) == IF x < 0 THEN -x ELSE x

Max2(a, b) == IF a >= b THEN a ELSE b

Min2(a, b) == IF a <= b THEN a ELSE b

--------------------------------------------------------------------------
(* colorsys.rgb_to_hsv on r/255, g/255, b/255, in exact arithmetic.       *)
(* v = maxc/255, s = (maxc-minc)/maxc, h = HueNum/HueDen degrees.  The    *)
(* thresholds of get_color_name are compared by cross-multiplication.     *)
(* colorsys computes in binary floating point, which can move an input    *)
(* lying exactly on a threshold to the neighbouring branch; the inputs    *)
(* of ChannelSamples lie on no threshold.                                  *)

MaxC(r, g, b) == Max2(r, Max2(g, b))

MinC(r, g, b) == Min2(r, Min2(g, b))

\* v < num/den
VLess(r, g, b, num, den) == MaxC(r, g, b) * den < 255 * num

\* v > num/den
VGreater(r, g, b, num, den) == MaxC(r, g, b) * den > 255 * num

\* s < num/den  (s = 0 when minc = maxc)
SLess(r, g, b, num, den) ==
    IF MinC(r, g, b) = MaxC(r, g, b)
    THEN 0 < num
    ELSE (MaxC(r, g, b) - MinC(r, g, b)) * den < MaxC(r, g, b) * num

\* The denominator of the hue: maxc - minc (1 for a gray, whose hue is 0).
HueDen(r, g, b) ==
    IF MinC(r, g, b) = MaxC(r, g, b) THEN 1 ELSE MaxC(r, g, b) - MinC(r, g, b)

\* The hue in degrees times HueDen: 360 * ((h/6) mod 1.0) with
\* h = bc-gc, 2+rc-bc or 4+gc-rc by the channel holding the maximum.
HueNum(r, g, b) ==
    LET maxc == MaxC(r, g, b)
        d == HueDen(r, g, b)
        sixths == IF MinC(r, g, b) = maxc THEN 0
                  ELSE IF r = maxc THEN (maxc - b) - (maxc - g)
                  ELSE IF g = maxc THEN 2 * d + (maxc - r) - (maxc - b)
                  ELSE 4 * d + (maxc - g) - (maxc - r)
    IN 60 * (sixths % (6 * d))

\* h < deg
HLess(r, g, b, deg) == HueNum(r, g, b) < deg * HueDen(r, g, b)

\* h > deg
HGreater(r, g, b, deg) == HueNum(r, g, b) > deg * HueDen(r, g, b)

\* get_color_name with its 'blue' branch given the bound 210 instead of the
\* repeated 150.
GetColorNameBlue210(r, g, b) ==
    IF VLess(r, g, b, 1, 5) THEN "black"
    ELSE IF VGreater(r, g, b, 4, 5) /\ SLess(r, g, b, 1, 5) THEN "white"
    ELSE IF SLess(r, g, b, 1, 5) THEN "gray"
    ELSE IF HLess(r, g, b, 15) \/ HGreater(r, g, b, 345) THEN "red"
    ELSE IF HLess(r, g, b, 45) THEN "orange"
    ELSE IF HLess(r, g, b, 75) THEN "yellow"
    ELSE IF HLess(r, g, b, 150) THEN "green"
    ELSE IF HLess(r, g, b, 210) THEN "blue"
    ELSE IF HLess(r, g, b, 270) THEN "purple"
    ELSE IF HLess(r, g, b, 330) THEN "pink"
    ELSE "red"

\* get_color_name with the 'green' bound widened to 270, which is what
\* "blue hues fall into green" would take.
GetColorNameGreen270(r, g, b) ==
    IF VLess(r, g, b, 1, 5) THEN "black"
    ELSE IF VGreater(r, g, b, 4, 5) /\ SLess(r, g, b, 1, 5) THEN "white"
    ELSE IF SLess(r, g, b, 1, 5) THEN "gray"
    ELSE IF HLess(r, g, b, 15) \/ HGreater(r, g, b, 345) THEN "red"
    ELSE IF HLess(r, g, b, 45) THEN "orange"
    ELSE IF HLess(r, g, b, 75) THEN "yellow"
    ELSE IF HLess(r, g, b, 270) THEN "green"
    ELSE IF HLess(r, g, b, 330) THEN "pink"
    ELSE "red"

\* get_color_name(r, g, b): the if/elif ladder, the unreachable 'blue'
\* branch included.
GetColorName(r, g, b) ==
    IF VLess(r, g, b, 1, 5) THEN "black"
    ELSE IF VGreater(r, g, b, 4, 5) /\ SLess(r, g, b, 1, 5) THEN "white"
    ELSE IF SLess(r, g, b, 1, 5) THEN "gray"
    ELSE IF HLess(r, g, b, 15) \/ HGreater(r, g, b, 345) THEN "red"
    ELSE IF HLess(r, g, b, 45) THEN "orange"
    ELSE IF HLess(r, g, b, 75) THEN "yellow"
    ELSE IF HLess(r, g, b, 150) THEN "green"
    ELSE IF HLess(r, g, b, 150) THEN "blue"
    ELSE IF HLess(r, g, b, 270) THEN "purple"
    ELSE IF HLess(r, g, b, 330) THEN "pink"
    ELSE "red"

--------------------------------------------------------------------------
(* SpecName: get_color_name applied to a sampled RGB triple. *)

\* Channel values sampled from 0..255.
ChannelSamples == {0, 40, 64, 128, 192, 220, 255}

InitName ==
    /\ rgb \in ChannelSamples \X ChannelSamples \X ChannelSamples
    /\ cname = ""

\* name = get_color_name(r, g, b)
CallGetColorName ==
    /\ cname = ""
    /\ cname' = GetColorName(rgb[1], rgb[2], rgb[3])
    /\ UNCHANGED rgb

--------------------------------------------------------------------------
(* get_dominant_colors.  A pixel is a triple <<r, g, b>>. *)

\* abs(r - er) + abs(g - eg) + abs(b - eb)
Dist(p, q) == Abs(p[1] - q[1]) + Abs(p[2] - q[2]) + Abs(p[3] - q[3])

\* color_threshold = 30
ColorThreshold == 30

\* filtered_pixels[-100:] looks at the last 100 candidates
FilterWindow == 100

\* The second threshold set to the first one.
DiverseThresholdAsFilter == ColorThreshold

\* color_distance < 60: colors too similar
DiverseThreshold == 60

\* s[-n:]
LastN(s, n) == SubSeq(s, Max2(1, Len(s) - n + 1), Len(s))

\* is_unique with every candidate compared, not the last 100 alone.
IsUniqueWholePool(pixel, filtered) ==
    \A k \in DOMAIN filtered : ~(Dist(pixel, filtered[k]) < ColorThreshold)

\* is_unique after the inner loop: no candidate among the last 100 is closer
\* than color_threshold.
IsUnique(pixel, filtered) ==
    \A k \in DOMAIN LastN(filtered, FilterWindow) :
        ~(Dist(pixel, LastN(filtered, FilterWindow)[k]) < ColorThreshold)

\* filtered_pixels after the loop body has run for pixel.
ScanStep(pixel, filtered) ==
    IF IsUnique(pixel, filtered) THEN Append(filtered, pixel) ELSE filtered

\* The filtered pool taken as soon as it has num_colors * 10 entries.
PixelsToAnalyzeAtLeast(pxs, filtered, n) ==
    IF Len(filtered) >= n * 10 THEN filtered ELSE pxs

\* pixels_to_analyze = filtered_pixels if len(filtered_pixels) > num_colors * 10
\*                     else pixels
PixelsToAnalyze(pxs, filtered, n) ==
    IF Len(filtered) > n * 10 THEN filtered ELSE pxs

\* The number of elements of s equal to c.
CountOf(s, c) == Cardinality({i \in DOMAIN s : s[i] = c})

\* Counter(s): the pairs <<color, count>> in the order in which the colors
\* first occur in s (a dict keeps insertion order).
Counter(s) ==
    LET first == {i \in DOMAIN s : \A j \in 1..(i - 1) : s[j] # s[i]}
        key(k) == s[CHOOSE i \in first :
                        Cardinality({j \in first : j <= i}) = k]
    IN [k \in 1..Cardinality(first) |-> <<key(k), CountOf(s, key(k))>>]

\* s without its element at index i.
RemoveAt(s, i) == SubSeq(s, 1, i - 1) \o SubSeq(s, i + 1, Len(s))

\* Counter.most_common(n): the n entries with the highest counts, highest
\* first, equal counts in insertion order (heapq.nlargest is stable).
MostCommon(counter, n) ==
    LET RECURSIVE Pick(_, _, _)
        Pick(rest, k, acc) ==
            IF k = 0 \/ rest = <<>> THEN acc
            ELSE LET best == CHOOSE i \in DOMAIN rest :
                                 /\ \A j \in DOMAIN rest : rest[j][2] <= rest[i][2]
                                 /\ \A j \in 1..(i - 1) : rest[j][2] < rest[i][2]
                 IN Pick(RemoveAt(rest, best), k - 1, Append(acc, rest[best]))
    IN Pick(counter, n, <<>>)

\* is_diverse after the inner loop: no selected color is closer than 60.
IsDiverse(color, diverse) ==
    \A k \in DOMAIN diverse : ~(Dist(color, diverse[k][1]) < DiverseThreshold)

\* The selection without the break at num_colors.
DiverseColorsNoBreak(most_common, n) ==
    LET RECURSIVE Sel(_, _)
        Sel(i, diverse) ==
            IF i > Len(most_common) THEN diverse
            ELSE IF IsDiverse(most_common[i][1], diverse)
                 THEN Sel(i + 1, Append(diverse, most_common[i]))
                 ELSE Sel(i + 1, diverse)
    IN Sel(1, <<>>)

\* for color, count in most_common: ... diverse_colors.append((color, count));
\* break once len(diverse_colors) >= num_colors.
DiverseColors(most_common, n) ==
    LET RECURSIVE Sel(_, _)
        Sel(i, diverse) ==
            IF i > Len(most_common) THEN diverse
            ELSE IF IsDiverse(most_common[i][1], diverse)
                 THEN LET d2 == Append(diverse, most_common[i])
                      IN IF Len(d2) >= n THEN d2 ELSE Sel(i + 1, d2)
                 ELSE Sel(i + 1, diverse)
    IN Sel(1, <<>>)

\* round(count / total * 100, 1) in tenths of a percent: the quotient
\* count * 1000 / total rounded to the nearest integer, halves to even.
PercentTenths(count, total) ==
    LET q == (count * 1000) \div total
        r2 == 2 * ((count * 1000) % total)
    IN IF r2 > total \/ (r2 = total /\ q % 2 = 1) THEN q + 1 ELSE q

\* One hexadecimal digit of f"{x:02x}".
HexDigit(d) ==
    <<"0", "1", "2", "3", "4", "5", "6", "7",
      "8", "9", "a", "b", "c", "d", "e", "f">>[d + 1]

\* f"#{r:02x}{g:02x}{b:02x}" as the sequence of its characters.
HexColor(r, g, b) ==
    <<"#", HexDigit(r \div 16), HexDigit(r % 16),
           HexDigit(g \div 16), HexDigit(g % 16),
           HexDigit(b \div 16), HexDigit(b % 16)>>

\* The entry appended to dominant_colors for (color, count).
Swatch(color, count, total) ==
    [hex |-> HexColor(color[1], color[2], color[3]),
     rgb |-> color,
     name |-> GetColorName(color[1], color[2], color[3]),
     percentage |-> PercentTenths(count, total)]

\* get_dominant_colors from the choice of pixels_to_analyze to the return.
DominantColorsOf(pxs, filtered, n) ==
    LET most_common ==
            MostCommon(Counter(PixelsToAnalyze(pxs, filtered, n)), n * 2)
        diverse == DiverseColors(most_common, n)
    IN [k \in 1..Len(diverse) |->
           Swatch(diverse[k][1], diverse[k][2], Len(pxs))]

--------------------------------------------------------------------------
(* SpecColors: get_dominant_colors applied to a pixel list. *)

\* The longest pixel list enumerated in full.
MaxPixels == 4

\* The largest num_colors argument.
MaxNumColors == 2

\* Colors at chosen distances: NearRed is 20 from Red (below color_threshold),
\* DarkRed is 40 from Red and 20 from NearRed (between the two thresholds),
\* the others are further than 60 from each other.
Red == <<255, 0, 0>>

NearRed == <<250, 10, 5>>

DarkRed == <<235, 10, 10>>

Green == <<0, 255, 0>>

Blue == <<0, 0, 255>>

Palette == {Red, NearRed, DarkRed, Green, Blue}

\* The j-th color (from 0) of a grid whose neighbours are 32 apart, so that
\* every color of a ramp enters the filtered pool.
GridColor(j) ==
    <<(j % 8) * 32, ((j \div 8) % 8) * 32, ((j \div 64) % 8) * 32>>

\* n grid colors, each on rep consecutive pixels.
Ramp(n, rep) == [k \in 1..(n * rep) |-> GridColor((k - 1) \div rep)]

\* n grid colors in order, the whole row rep times.
Rows(n, rep) == [k \in 1..(n * rep) |-> GridColor((k - 1) % n)]

\* Pixel lists long enough for the filtered pool to pass num_colors * 10.
LongPixelLists ==
    {Ramp(n, rep) : n \in {10, 11, 21}, rep \in {1, 2}}
    \cup {Rows(n, 2) : n \in {10, 11, 21}}
    \cup {Ramp(11, 2) \o <<c, c, c>> : c \in Palette}

\* Pixel lists whose filtered pool outgrows the 100 candidates a pixel is
\* compared with: n grid colors, then the first of them again, then the sixth.
WindowPixelLists ==
    {Ramp(n, 1) \o <<GridColor(0), GridColor(5)>> : n \in {100, 101}}

\* 15 from Red, 25 from NearRed and from DarkRed.
DeepRed == <<240, 0, 0>>

\* Four reds closer than 60 to each other, twice each, and one green pixel:
\* with num_colors = 2 the four most frequent colors are the reds.
CrowdedPixelList ==
    <<Red, Red, NearRed, NearRed, DarkRed, DarkRed, DeepRed, DeepRed, Green>>

PixelLists ==
    UNION {[1..n -> Palette] : n \in 0..MaxPixels} \cup LongPixelLists
    \cup WindowPixelLists \cup {CrowdedPixelList}

InitColors ==
    /\ pixels \in PixelLists
    /\ num_colors \in 1..MaxNumColors
    /\ filtered_pixels = <<>>
    /\ scan_i = 1
    /\ dominant = <<>>
    /\ dpc = "scan"

\* One pass of  for pixel in pixels: ...  of get_dominant_colors.
ScanPixel ==
    /\ dpc = "scan"
    /\ scan_i <= Len(pixels)
    /\ filtered_pixels' = ScanStep(pixels[scan_i], filtered_pixels)
    /\ scan_i' = scan_i + 1
    /\ UNCHANGED <<pixels, num_colors, dominant, dpc>>

\* The rest of get_dominant_colors, once the loop over pixels has ended.
SelectColors ==
    /\ dpc = "scan"
    /\ scan_i > Len(pixels)
    /\ dominant' = DominantColorsOf(pixels, filtered_pixels, num_colors)
    /\ dpc' = "returned"
    /\ UNCHANGED <<pixels, num_colors, filtered_pixels, scan_i>>

\* The distinct colors of a pixel list.
ColorsOf(pxs) == {pxs[i] : i \in DOMAIN pxs}

--------------------------------------------------------------------------
(* Uploaded files and settings. *)

\* An uploaded file: its size in bytes, what Pillow can do with its bytes
\* ("valid": opens, verifies and loads; "truncated": opens and verifies, the
\* pixel data does not load; "garbage": does not open), its format and the
\* decoded RGB image.
FileKinds == {"valid", "truncated", "garbage"}

Opens(file) == file.kind \in {"valid", "truncated"}

Verifies(file) == file.kind \in {"valid", "truncated"}

Loads(file) == file.kind = "valid"

Black == <<0, 0, 0>>

White == <<255, 255, 255>>

Yellow == <<255, 255, 0>>

\* 1 x 2, one color: the shape of the tested red image.
SolidRedImage == [width |-> 1, height |-> 2, pixels |-> <<Red, Red>>]

TwoToneImage == [width |-> 2, height |-> 1, pixels |-> <<Red, Green>>]

\* 6 x 1, six colors further than 60 from each other.
BarsImage ==
    [width |-> 6, height |-> 1,
     pixels |-> <<Red, Green, Blue, Black, White, Yellow>>]

\* 13 x 4, 51 grid colors, the first on two pixels: the filtered pool has
\* more than 5 * 10 entries.
GradientImage ==
    [width |-> 13, height |-> 4,
     pixels |-> [k \in 1..52 |-> GridColor(Max2(k - 2, 0))]]

\* 400 x 2, one color: wider than the 200 x 200 of image.thumbnail.
WideRedImage ==
    [width |-> 400, height |-> 2, pixels |-> [k \in 1..800 |-> Red]]

Images ==
    {SolidRedImage, TwoToneImage, BarsImage, GradientImage, WideRedImage}

\* The size Image.thumbnail((200, 200)) gives a width x height image: the
\* image's own when it fits, else 200 on the longer side and the other side
\* scaled, rounded to the neighbour that keeps the aspect ratio best, and at
\* least 1.  Where both neighbours keep it equally well the float arithmetic
\* of Pillow decides; no image here has such a size.
ThumbnailSize(width, height) ==
    IF width <= 200 /\ height <= 200 THEN <<width, height>>
    ELSE IF height >= width
    THEN LET f == (200 * width) \div height
             r == (200 * width) % height
         IN <<Max2(IF r <= height - r THEN f ELSE f + 1, 1), 200>>
    ELSE LET f == (200 * height) \div width
             c == IF (200 * height) % width = 0 THEN f ELSE f + 1
         IN <<200,
              Max2(IF f = 0 \/ Abs(width * f - 200 * height) * c
                                 <= Abs(width * c - 200 * height) * f
                   THEN f ELSE c, 1)>>

\* image.thumbnail((200, 200)): the image object resized in place.  A raster
\* of one color resamples to that color; the larger images here have one.
Thumbnail(image) ==
    LET size == ThumbnailSize(image.width, image.height)
    IN IF size = <<image.width, image.height>> THEN image
       ELSE [width |-> size[1], height |-> size[2],
             pixels |-> [k \in 1..(size[1] * size[2]) |-> image.pixels[1]]]

\* File sizes in bytes: below 0.001 MB, between 0.001 MB and 10 MB, above
\* 10 MB.
FileSizes == {1000, 2000, 11000000}

Files ==
    [size : FileSizes, kind : FileKinds, format : {"JPEG", "PNG", "TIFF"},
     image : Images]

\* The content types MultiPartParser and FormParser take.
ParsedMediaTypes == {"multipart/form-data", "application/x-www-form-urlencoded"}

\* A request: its content type and, for a form, request.data with or
\* without the 'image' field.  A body of another content type has no form.
Requests ==
    {[media_type |-> "multipart/form-data", has_image |-> FALSE,
      image |-> CHOOSE f \in Files : TRUE]}
    \cup {[media_type |-> "multipart/form-data", has_image |-> TRUE,
           image |-> f] : f \in Files}
    \cup {[media_type |-> "application/json", has_image |-> FALSE,
           image |-> CHOOSE f \in Files : TRUE]}

\* settings: MAX_IMAGE_SIZE_MB in thousandths of a MB (0.001 as in the size
\* test, and the default 10), USE_LOCAL_LLM, and whether each API key is set.
Settings ==
    [MAX_IMAGE_SIZE_MB : {1, 10000}, USE_LOCAL_LLM : BOOLEAN,
     OPENAI_API_KEY : BOOLEAN, ANTHROPIC_API_KEY : BOOLEAN]

\* value.size > MAX_IMAGE_SIZE_MB * 1024 * 1024, both sides times 1000 / 8.
TooLarge(size, max_milli_mb) == size * 125 > max_milli_mb * 131072

\* f"{max_size_mb}" for the settings of the model.
MaxSizeText(max_milli_mb) == IF max_milli_mb = 1 THEN "0.001" ELSE "10"

\* f"Image file too large. Maximum size: {max_size_mb}MB", word by word.
TooLargeMessage(max_milli_mb) ==
    <<"Image", "file", "too", "large", ".", "Maximum", "size", ":",
      MaxSizeText(max_milli_mb), "MB">>

\* needle in haystack, for texts held as sequences of words.
Contains(haystack, needle) ==
    \E i \in 0..(Len(haystack) - Len(needle)) :
        \A k \in 1..Len(needle) : haystack[i + k] = needle[k]

--------------------------------------------------------------------------
(* serializers.py *)

AllowedFormats == {"JPEG", "JPG", "PNG", "GIF", "BMP", "WEBP"}

\* ImageUploadSerializer.validate_image: the ValidationError it raises, or
\* <<>> when it returns value.  The "Unsupported image format" error is
\* raised inside the try and replaced by "Invalid image file".
ValidateImageError(file, stg) ==
    IF TooLarge(file.size, stg.MAX_IMAGE_SIZE_MB)
    THEN TooLargeMessage(stg.MAX_IMAGE_SIZE_MB)
    ELSE IF ~Opens(file) \/ file.format \notin AllowedFormats
    THEN <<"Invalid", "image", "file">>
    ELSE <<>>

\* The serializer with required=False: a request without the field passes.
SerializerErrorsNotRequired(req, stg) ==
    IF ~req.has_image THEN <<>>
    ELSE IF ~(Opens(req.image) /\ Verifies(req.image))
    THEN <<"Upload", "a", "valid", "image", ".">>
    ELSE ValidateImageError(req.image, stg)

\* serializer.errors['image'] after is_valid(), <<>> when the data is valid:
\* the field is required, ImageField accepts what Pillow opens and verifies,
\* then validate_image runs.
SerializerErrors(req, stg) ==
    IF ~req.has_image THEN <<"No", "file", "was", "submitted", ".">>
    ELSE IF ~(Opens(req.image) /\ Verifies(req.image))
    THEN <<"Upload", "a", "valid", "image", ".">>
    ELSE ValidateImageError(req.image, stg)

--------------------------------------------------------------------------
(* utils.py: validate_image_file, extract_image_metadata,                 *)
(* generate_description_prompt                                             *)

\* validate_image_file: the message of the ValueError it raises, or <<>>.
ValidateImageFileError(file, max_milli_mb) ==
    IF TooLarge(file.size, max_milli_mb) THEN TooLargeMessage(max_milli_mb)
    ELSE IF ~(Opens(file) /\ Verifies(file))
    THEN <<"Invalid", "image", "file", "format">>
    ELSE <<>>

\* round(width / height, 2) in hundredths.  A quotient exactly halfway
\* between two hundredths goes to the even one when the float holds it
\* exactly (1/8 -> 0.12); otherwise the float nearest to it decides
\* (3/200 -> 0.01), and no image below has such a ratio.
AspectRatio(width, height) ==
    LET q == (width * 100) \div height
        r2 == 2 * ((width * 100) % height)
    IN IF r2 > height \/ (r2 = height /\ q % 2 = 1) THEN q + 1 ELSE q

\* The returned dict with image.size read after get_dominant_colors.
MetadataAfterThumbnail(image, dominant_colors) ==
    [width |-> Thumbnail(image).width,
     height |-> Thumbnail(image).height,
     dominant_colors |-> dominant_colors,
     aspect_ratio |-> AspectRatio(Thumbnail(image).width,
                                  Thumbnail(image).height),
     total_pixels |-> Thumbnail(image).width * Thumbnail(image).height]

\* The dict returned by extract_image_metadata; width and height were read
\* from image.size before get_dominant_colors was called.
Metadata(image, dominant_colors) ==
    [width |-> image.width,
     height |-> image.height,
     dominant_colors |-> dominant_colors,
     aspect_ratio |-> AspectRatio(image.width, image.height),
     total_pixels |-> image.width * image.height]

NoMetadata == [width |-> 0, height |-> 0, dominant_colors |-> <<>>,
               aspect_ratio |-> 0, total_pixels |-> 0]

\* The pieces of a prompt: a word or punctuation mark, an integer, a
\* decimal number held in hundredths, or a malformed number.
Word(w) == [k |-> "word", w |-> w, n |-> 0]

Number(n) == [k |-> "int", w |-> "", n |-> n]

Decimal(n) == [k |-> "dec", w |-> "", n |-> n]

\* A run of digits and dots that float() rejects, such as 1.2.3
Malformed == [k |-> "bad", w |-> "", n |-> 0]

Words(ws) == [i \in DOMAIN ws |-> Word(ws[i])]

\* s[:n]
FirstN(s, n) == SubSeq(s, 1, Min2(n, Len(s)))

\* ", ".join(names)
JoinComma(names) ==
    [i \in 1..(IF names = <<>> THEN 0 ELSE 2 * Len(names) - 1) |->
        IF i % 2 = 1 THEN Word(names[(i + 1) \div 2]) ELSE Word(",")]

\* generate_description_prompt(metadata)
GenerateDescriptionPrompt(md) ==
    Words(<<"Describe", "this", "image", "based", "on", "the", "following",
            "visual", "analysis", ":",
            "Image", "Properties", ":",
            "-", "Dimensions", ":">>)
    \o <<Number(md.width), Word("x"), Number(md.height), Word("pixels")>>
    \o Words(<<"-", "Aspect", "ratio", ":">>)
    \o <<Decimal(md.aspect_ratio)>>
    \o Words(<<"-", "Dominant", "colors", ":">>)
    \o JoinComma([i \in DOMAIN FirstN(md.dominant_colors, 3) |->
                     md.dominant_colors[i].name])
    \o Words(<<"Please", "provide", "a", "detailed", ",", "coherent",
               "description", "of", "what", "this", "image", "likely",
               "contains", ",", "considering", "its", "dimensions", ",",
               "proportions", ",", "and", "color", "palette", ".",
               "Focus", "on", "the", "overall", "composition", ",", "mood",
               ",", "and", "potential", "subject", "matter", "that", "would",
               "align", "with", "these", "visual", "characteristics", ".">>)

--------------------------------------------------------------------------
(* services.py: LLMService *)

\* str.lower() on the capitalised words a prompt holds.
LowerWord(w) ==
    CASE w = "Describe" -> "describe"
      [] w = "Image" -> "image"
      [] w = "Properties" -> "properties"
      [] w = "Dimensions" -> "dimensions"
      [] w = "Aspect" -> "aspect"
      [] w = "Dominant" -> "dominant"
      [] w = "Please" -> "please"
      [] w = "Focus" -> "focus"
      [] OTHER -> w

\* prompt.lower()
Lower(p) == [i \in DOMAIN p |-> [p[i] EXCEPT !.w = LowerWord(@)]]

\* color_names of _extract_detected_colors, in its order.
ColorNames ==
    <<"white", "black", "gray", "grey", "red", "blue", "green",
      "yellow", "orange", "purple", "pink", "brown", "tan", "beige",
      "navy", "maroon", "olive", "lime", "aqua", "teal", "silver">>

\* f'name": "{color}"' in prompt_lower or f"'{color}'" in prompt_lower
ColorMentioned(prompt_lower, color) ==
    \/ Contains(prompt_lower,
                Words(<<"name", "\"", ":", "\"", color, "\"">>))
    \/ Contains(prompt_lower, Words(<<"'", color, "'">>))

\* s without the elements that occurred earlier in it.
Unique(s) ==
    LET first == {i \in DOMAIN s : \A j \in 1..(i - 1) : s[j] # s[i]}
    IN [k \in 1..Cardinality(first) |->
           s[CHOOSE i \in first : Cardinality({j \in first : j <= i}) = k]]

\* LLMService._extract_detected_colors(prompt)
ExtractDetectedColors(p) ==
    FirstN(Unique(SelectSeq(ColorNames,
                            LAMBDA c : ColorMentioned(Lower(p), c))), 5)

\* The least element of a non-empty set of numbers.
MinOf(S) == CHOOSE x \in S : \A y \in S : x <= y

\* The first match of Aspect ratio:\s*([\d.]+) in the prompt, as the set of
\* the positions where it starts.
RatioMatches(p) ==
    {i \in 1..(Len(p) - 3) :
        /\ p[i] = Word("Aspect") /\ p[i + 1] = Word("ratio")
        /\ p[i + 2] = Word(":") /\ p[i + 3].k \in {"int", "dec", "bad"}}

\* float(ratio_match.group(1)) raises ValueError
MetadataRaises(p) ==
    RatioMatches(p) # {} /\ p[MinOf(RatioMatches(p)) + 3].k = "bad"

\* LLMService._extract_metadata_from_prompt(prompt), where it returns: the
\* first match of (\d+)\s*x\s*(\d+)\s*pixels and of the aspect ratio.  The
\* dict is held as a record with a flag for each group of keys it may lack;
\* aspect_ratio is in hundredths.
ExtractMetadataFromPrompt(p) ==
    LET dims == {i \in 1..(Len(p) - 3) :
                    /\ p[i].k = "int" /\ p[i + 1] = Word("x")
                    /\ p[i + 2].k = "int" /\ p[i + 3] = Word("pixels")}
        ratio == RatioMatches(p)
        number == IF ratio = {} THEN Decimal(0) ELSE p[MinOf(ratio) + 3]
    IN [has_size |-> dims # {},
        width |-> IF dims = {} THEN 0 ELSE p[MinOf(dims)].n,
        height |-> IF dims = {} THEN 0 ELSE p[MinOf(dims) + 2].n,
        has_ratio |-> ratio # {},
        aspect_ratio |-> IF number.k = "int" THEN 100 * number.n
                         ELSE number.n]

\* metadata.get('aspect_ratio', 1.0), in hundredths
GetAspectRatio(md) == IF md.has_ratio THEN md.aspect_ratio ELSE 100

\* metadata.get('width', 0)
GetWidth(md) == IF md.has_size THEN md.width ELSE 0

\* metadata.get('height', 0)
GetHeight(md) == IF md.has_size THEN md.height ELSE 0

\* The thresholds of _determine_orientation compared with >=.
DetermineOrientationInclusive(aspect_ratio) ==
    IF aspect_ratio >= 200 THEN "ultra_wide_panoramic"
    ELSE IF aspect_ratio >= 160 THEN "wide_landscape"
    ELSE IF aspect_ratio >= 120 THEN "standard_landscape"
    ELSE IF aspect_ratio >= 80 THEN "square_format"
    ELSE "portrait_format"

\* LLMService._determine_orientation(aspect_ratio)
DetermineOrientation(aspect_ratio) ==
    IF aspect_ratio > 200 THEN "ultra_wide_panoramic"
    ELSE IF aspect_ratio > 160 THEN "wide_landscape"
    ELSE IF aspect_ratio > 120 THEN "standard_landscape"
    ELSE IF aspect_ratio > 80 THEN "square_format"
    ELSE "portrait_format"

\* set(colors)
ColorSet(colors) == {colors[i] : i \in DOMAIN colors}

\* LLMService._determine_subject_matter(colors, aspect_ratio)
DetermineSubjectMatter(colors, aspect_ratio) ==
    LET color_set == ColorSet(colors)
    IN IF "green" \in color_set /\ "blue" \in color_set
            THEN "natural_landscape"
       ELSE IF "green" \in color_set /\ "brown" \in color_set
            THEN "nature_scene"
       ELSE IF "blue" \in color_set /\ "white" \in color_set
            THEN "sky_or_water_scene"
       ELSE IF "white" \in color_set /\ "gray" \in color_set
            THEN "architectural_scene"
       ELSE IF "black" \in color_set /\ Len(colors) <= 2
            THEN "high_contrast_subject"
       ELSE IF aspect_ratio < 100
               /\ ("beige" \in color_set \/ "tan" \in color_set)
            THEN "possible_portrait"
       ELSE IF Len(colors) <= 2 THEN "minimalist_composition"
       ELSE IF "red" \in color_set \/ "orange" \in color_set
               \/ "yellow" \in color_set
            THEN "warm_colorful_scene"
       ELSE IF "purple" \in color_set \/ "pink" \in color_set
            THEN "artistic_creative_scene"
       ELSE IF Len(colors) >= 4 THEN "diverse_colorful_scene"
       ELSE "balanced_composition"

\* A mood chosen by the first name of the list alone.
DetermineMoodByFirstColor(colors) ==
    LET first == IF colors = <<>> THEN "" ELSE colors[1]
    IN IF first = "black" THEN "dramatic_moody"
       ELSE IF first = "green" THEN "natural_fresh"
       ELSE IF first \in {"red", "orange"} THEN "energetic_warm"
       ELSE IF first = "yellow" THEN "bright_cheerful"
       ELSE IF first \in {"purple", "pink"} THEN "creative_artistic"
       ELSE "balanced_harmonious"

\* LLMService._determine_mood(colors)
DetermineMood(colors) ==
    LET color_set == ColorSet(colors)
    IN IF "black" \in color_set /\ Len(colors) <= 2 THEN "dramatic_moody"
       ELSE IF "blue" \in color_set /\ "white" \in color_set
            THEN "serene_peaceful"
       ELSE IF "green" \in color_set THEN "natural_fresh"
       ELSE IF "red" \in color_set \/ "orange" \in color_set
            THEN "energetic_warm"
       ELSE IF "yellow" \in color_set THEN "bright_cheerful"
       ELSE IF "purple" \in color_set \/ "pink" \in color_set
            THEN "creative_artistic"
       ELSE IF "white" \in color_set /\ "gray" \in color_set
            THEN "clean_minimal"
       ELSE "balanced_harmonious"

\* _determine_setting with "studio_controlled" where no rule matches.
DetermineSettingStudioDefault(colors, aspect_ratio) ==
    LET color_set == ColorSet(colors)
    IN IF "green" \in color_set /\ "blue" \in color_set
            THEN "outdoor_natural"
       ELSE IF "blue" \in color_set /\ aspect_ratio > 150
            THEN "open_sky_water"
       ELSE IF "white" \in color_set /\ "gray" \in color_set
            THEN "urban_architectural"
       ELSE IF "brown" \in color_set /\ "green" \in color_set
            THEN "rural_countryside"
       ELSE "studio_controlled"

\* LLMService._determine_setting(colors, aspect_ratio)
DetermineSetting(colors, aspect_ratio) ==
    LET color_set == ColorSet(colors)
    IN IF "green" \in color_set /\ "blue" \in color_set
            THEN "outdoor_natural"
       ELSE IF "blue" \in color_set /\ aspect_ratio > 150
            THEN "open_sky_water"
       ELSE IF "white" \in color_set /\ "gray" \in color_set
            THEN "urban_architectural"
       ELSE IF "brown" \in color_set /\ "green" \in color_set
            THEN "rural_countryside"
       ELSE IF "black" \in color_set THEN "studio_controlled"
       ELSE "general_environment"

\* LLMService._determine_photography_type(colors, aspect_ratio, width, height)
DeterminePhotographyType(colors, aspect_ratio, width, height) ==
    LET total_pixels == IF width # 0 /\ height # 0 THEN width * height ELSE 0
        has(c) == c \in ColorSet(colors)
    IN IF aspect_ratio < 90 /\ total_pixels > 2000000
            THEN "portrait_photography"
       ELSE IF aspect_ratio > 180 THEN "panoramic_photography"
       ELSE IF has("white") /\ has("gray") /\ aspect_ratio > 120
            THEN "architectural_photography"
       ELSE IF has("green") /\ has("blue") THEN "landscape_photography"
       ELSE IF Len(colors) <= 2 THEN "artistic_photography"
       ELSE IF total_pixels > 10000000 THEN "professional_photography"
       ELSE "general_photography"

\* LLMService._analyze_image_content(colors, metadata)
AnalyzeImageContent(colors, md) ==
    [orientation |-> DetermineOrientation(GetAspectRatio(md)),
     likely_subject |-> DetermineSubjectMatter(colors, GetAspectRatio(md)),
     mood |-> DetermineMood(colors),
     setting |-> DetermineSetting(colors, GetAspectRatio(md)),
     photography_type |->
         DeterminePhotographyType(colors, GetAspectRatio(md),
                                  GetWidth(md), GetHeight(md))]

\* The keys of orientation_descriptions, subject_descriptions,
\* mood_descriptions and photo_type_descriptions.
OrientationKeys ==
    {"ultra_wide_panoramic", "wide_landscape", "standard_landscape",
     "square_format", "portrait_format"}

SubjectKeys ==
    {"natural_landscape", "nature_scene", "sky_or_water_scene",
     "architectural_scene", "high_contrast_subject", "possible_portrait",
     "minimalist_composition", "warm_colorful_scene",
     "artistic_creative_scene", "diverse_colorful_scene",
     "balanced_composition"}

MoodKeys ==
    {"dramatic_moody", "serene_peaceful", "natural_fresh", "energetic_warm",
     "bright_cheerful", "creative_artistic", "clean_minimal",
     "balanced_harmonious"}

PhotoTypeKeys ==
    {"portrait_photography", "panoramic_photography",
     "architectural_photography", "landscape_photography",
     "artistic_photography", "professional_photography"}

\* One fragment of the description: the dimension clause with its numbers
\* (0 x 0 with known = FALSE standing for 'unknown x unknown'), or the
\* fragment a table holds under key ("default" for the .get fallback).
Clause(kind, key) ==
    [kind |-> kind, key |-> key, known |-> FALSE, w |-> 0, h |-> 0]

DimensionClause(md) ==
    [kind |-> "dimension", key |-> "", known |-> md.has_size,
     w |-> GetWidth(md), h |-> GetHeight(md)]

\* The technical overview, the orientation context, the subject matter and
\* the mood of _generate_smart_description.
OpeningClauses(analysis, md) ==
    <<DimensionClause(md),
      Clause("orientation",
             IF analysis.orientation \in OrientationKeys
             THEN analysis.orientation ELSE "default"),
      Clause("subject",
             IF analysis.likely_subject \in SubjectKeys
             THEN analysis.likely_subject ELSE "default"),
      Clause("mood",
             IF analysis.mood \in MoodKeys
             THEN analysis.mood ELSE "default")>>

\* The technical quality assessment of _generate_smart_description.
ResolutionClause(md) ==
    LET total_pixels == IF md.has_size THEN md.width * md.height ELSE 0
    IN IF total_pixels > 15000000 THEN <<Clause("resolution", "15+")>>
       ELSE IF total_pixels > 10000000 THEN <<Clause("resolution", "10+")>>
       ELSE IF total_pixels > 5000000 THEN <<Clause("resolution", "5+")>>
       ELSE IF total_pixels > 2000000
            THEN <<Clause("resolution", "standard")>>
       ELSE <<>>

\* The photography type context of _generate_smart_description.
PhotographyTypeClause(analysis) ==
    IF analysis.photography_type \in PhotoTypeKeys
    THEN <<Clause("photography_type", analysis.photography_type)>>
    ELSE <<>>

\* The description with the photography type ahead of the resolution.
GenerateSmartDescriptionTypeFirst(analysis, md, colors) ==
    OpeningClauses(analysis, md) \o PhotographyTypeClause(analysis)
    \o ResolutionClause(md)

\* LLMService._generate_smart_description(analysis, metadata, colors): the
\* description as the sequence of its fragments.
GenerateSmartDescription(analysis, md, colors) ==
    OpeningClauses(analysis, md) \o ResolutionClause(md)
    \o PhotographyTypeClause(analysis)

\* An exception leaving a method, in place of the dict it would return.
Raised(message) == [raised |-> message]

IsRaised(result) == "raised" \in DOMAIN result

\* str(e) of the ValueError of float()
FloatError == <<"could", "not", "convert", "string", "to", "float">>

\* _get_intelligent_local_description without its except clause.
LocalDescriptionNoExcept(p) ==
    LET md == ExtractMetadataFromPrompt(p)
        colors == ExtractDetectedColors(p)
        analysis == AnalyzeImageContent(colors, md)
    IN IF MetadataRaises(p)
       THEN Raised(FloatError)
       ELSE [description |-> GenerateSmartDescription(analysis, md, colors),
             model_used |-> "intelligent_visual_analyzer",
             model_type |-> "local"]

\* LLMService._get_intelligent_local_description(prompt); the float
\* conversion is the one step of the try block that can raise.
LocalDescription(p) ==
    LET md == ExtractMetadataFromPrompt(p)
        colors == ExtractDetectedColors(p)
        analysis == AnalyzeImageContent(colors, md)
    IN IF MetadataRaises(p)
       THEN [description |-> <<Clause("fallback", "")>>,
             model_used |-> "general_fallback",
             model_type |-> "local",
             fallback_reason |-> FloatError]
       ELSE [description |-> GenerateSmartDescription(analysis, md, colors),
             model_used |-> "intelligent_visual_analyzer",
             model_type |-> "local"]

\* The provider _get_remote_description turns to.
RemoteProvider(stg) ==
    IF stg.OPENAI_API_KEY THEN "openai"
    ELSE IF stg.ANTHROPIC_API_KEY THEN "anthropic"
    ELSE "huggingface_free"

\* The chosen provider called again after a failed call.
ProvidersCalledWithRetry(provider, raised) ==
    IF provider = "huggingface_free" THEN <<>>
    ELSE IF raised THEN <<provider, provider>>
    ELSE <<provider>>

\* The providers one _get_remote_description sends a request to, in order:
\* the chosen one, whether its call returns or raises; _call_huggingface_free
\* sends nothing.
ProvidersCalled(provider, raised) ==
    IF provider = "huggingface_free" THEN <<>> ELSE <<provider>>

\* What _call_openai, _call_anthropic and _call_huggingface_free return
\* when they return.
RemoteDescription(provider) ==
    [description |-> <<Clause("remote_text", provider)>>,
     model_used |-> CASE provider = "openai" -> "openai_gpt-3.5-turbo"
                      [] provider = "anthropic" -> "anthropic_claude-3-haiku"
                      [] OTHER -> "huggingface_free_fallback",
     model_type |-> "remote"]

NoResponse == [description |-> <<>>, model_used |-> "", model_type |-> ""]

--------------------------------------------------------------------------
(* SpecAnalysis: _analyze_image_content applied to a list of colour names   *)
(* and a metadata dict, and _generate_smart_description applied to the     *)
(* result, or to an analysis dict given by a caller.                       *)

\* The longest colour list enumerated in full.
MaxColors == 3

\* The names enumerated in every order.
AnalysisNames ==
    {"green", "blue", "brown", "white", "gray", "black", "beige", "red"}

\* The lists of length n without a repeated name.
DistinctLists(n) ==
    {l \in [1..n -> AnalysisNames] :
        \A i, j \in 1..n : i # j => l[i] # l[j]}

\* Lists with the remaining names of the rule tables, with a repeated name,
\* and of four and five names.
OtherColorLists ==
    {<<"yellow">>, <<"purple">>, <<"tan">>, <<"orange", "navy", "teal">>,
     <<"pink", "navy", "teal">>, <<"yellow", "navy", "teal">>,
     <<"tan", "navy", "teal">>, <<"navy", "teal", "silver">>,
     <<"black", "black", "black">>, <<"red", "red">>,
     <<"green", "white", "black", "beige">>,
     <<"navy", "teal", "silver", "maroon">>,
     <<"white", "black", "gray", "red", "blue">>}

ColorLists ==
    UNION {DistinctLists(n) : n \in 0..MaxColors} \cup OtherColorLists

\* A metadata dict: its aspect ratio in hundredths, -1 for a dict without
\* the key, and its size, <<>> for a dict without width and height.
ParsedMetadata(ratio, size) ==
    [has_size |-> size # <<>>,
     width |-> IF size = <<>> THEN 0 ELSE size[1],
     height |-> IF size = <<>> THEN 0 ELSE size[2],
     has_ratio |-> ratio >= 0,
     aspect_ratio |-> IF ratio >= 0 THEN ratio ELSE 0]

\* Aspect ratios on both sides of every threshold of the rule tables.
Ratios ==
    {-1, 50, 80, 81, 89, 90, 99, 100, 120, 121, 150, 151, 160, 161, 180,
     181, 200, 201}

\* Sizes on both sides of 2, 5, 10 and 15 million pixels, and with a zero.
Sizes ==
    {<<>>, <<100, 200>>, <<0, 500>>, <<500, 0>>,
     <<2000, 1000>>, <<2001, 1000>>, <<5000, 1000>>, <<5001, 1000>>,
     <<10000, 1000>>, <<10001, 1000>>, <<15000, 1000>>, <<15001, 1000>>}

Metadatas ==
    {ParsedMetadata(r, sz) :
        r \in Ratios, sz \in {<<>>, <<100, 200>>, <<10001, 1000>>}}
    \cup {ParsedMetadata(r, sz) : r \in {-1, 50, 150}, sz \in Sizes}

\* Analysis dicts a caller of _generate_smart_description may pass: with the
\* keys of its tables and without.
GivenAnalyses ==
    [orientation : {"portrait_format", "diagonal"},
     likely_subject : {"nature_scene", "abstract"},
     mood : {"clean_minimal", "gloomy"},
     setting : {"studio_controlled"},
     photography_type : {"landscape_photography", "general_photography",
                         "macro_photography"}]

NoParsed ==
    [has_size |-> FALSE, width |-> 0, height |-> 0,
     has_ratio |-> FALSE, aspect_ratio |-> 0]

NoAnalysis ==
    [orientation |-> "", likely_subject |-> "", mood |-> "", setting |-> "",
     photography_type |-> ""]

InitAnalysis ==
    /\ arg_metadata \in Metadatas
    /\ smart_description = <<>>
    /\ \/ /\ arg_colors \in ColorLists
          /\ image_analysis = NoAnalysis
          /\ apc = "start"
       \/ /\ arg_colors = <<>>
          /\ image_analysis \in GivenAnalyses
          /\ apc = "given"

\* image_analysis = self._analyze_image_content(detected_colors, metadata)
CallAnalyzeImageContent ==
    /\ apc = "start"
    /\ image_analysis' = AnalyzeImageContent(arg_colors, arg_metadata)
    /\ apc' = "analysed"
    /\ UNCHANGED <<arg_colors, arg_metadata, smart_description>>

\* description = self._generate_smart_description(image_analysis, metadata,
\*                                                detected_colors)
CallGenerateSmartDescription ==
    /\ apc \in {"analysed", "given"}
    /\ smart_description' =
           GenerateSmartDescription(image_analysis, arg_metadata, arg_colors)
    /\ apc' = IF apc = "analysed" THEN "described" ELSE "described_given"
    /\ UNCHANGED <<arg_colors, arg_metadata, image_analysis>>

--------------------------------------------------------------------------
(* Prompts handed to get_description. *)

\* self.test_prompt of LLMServiceTestCase
TestPrompt ==
    Words(<<"Describe", "an", "image", "that", "is">>)
    \o <<Number(100), Word("x"), Number(200), Word("pixels")>>
    \o Words(<<"with", "red", ",", "blue", ",", "and", "green", "colors",
               ".">>)

\* The metadata of an image of one color.
PlainMetadata(width, height, color) ==
    [width |-> width, height |-> height,
     dominant_colors |-> <<Swatch(color, 1, 1)>>,
     aspect_ratio |-> AspectRatio(width, height),
     total_pixels |-> width * height]

\* Prompts as generate_description_prompt writes them.
GeneratedPrompts ==
    {GenerateDescriptionPrompt(PlainMetadata(size[1], size[2], c)) :
        size \in {<<100, 200>>, <<3000, 2000>>, <<6000, 2500>>},
        c \in {Red, Green}}

\* A prompt that quotes its color names, with or without numbers.
QuotedPrompt(numbers) ==
    Words(<<"An", "image", "in", "'", "green", "'", "and", "'", "blue", "'">>)
    \o numbers

\* The aspect ratio at the end of a sentence: [\d.]+ takes the full stop with
\* the digits, as in "Aspect ratio: 1.5."
MalformedRatio == Words(<<"Aspect", "ratio", ":">>) \o <<Malformed>>

Prompts ==
    {<<>>, TestPrompt, MalformedRatio,
     QuotedPrompt(<<>>),
     QuotedPrompt(<<Number(3000), Word("x"), Number(2000), Word("pixels")>>),
     QuotedPrompt(Words(<<"Aspect", "ratio", ":">>) \o <<Number(2)>>),
     QuotedPrompt(Words(<<"Aspect", "ratio", ":">>) \o <<Decimal(150)>>
                  \o MalformedRatio),
     QuotedPrompt(MalformedRatio),
     TestPrompt \o MalformedRatio}
    \cup GeneratedPrompts

--------------------------------------------------------------------------
(* views.py: the responses of describe_image *)

NoReply == [status |-> 0, body |-> [status |-> "none"]]

\* The 400 of an invalid serializer.
InvalidInputResponse(errors) ==
    [status |-> 400,
     body |-> [error |-> <<"Invalid", "input">>,
               details |-> errors,
               status |-> "error"]]

\* The 400 of a ValueError of validate_image_file.
InvalidFileResponse(message) ==
    [status |-> 400, body |-> [error |-> message, status |-> "error"]]

\* The 400 of a ValueError of extract_image_metadata, whose message
\* already starts with "Failed to process image".
ExtractFailedResponse(message) ==
    [status |-> 400,
     body |-> [error |-> <<"Failed", "to", "process", "image", ":">> \o message,
               status |-> "error"]]

\* The 500 without the processing time.
UnexpectedErrorResponseNoTime(message) ==
    [status |-> 500,
     body |-> [error |-> <<"Unexpected", "error", ":">> \o message,
               status |-> "error"]]

\* The 500 of the outer except.
UnexpectedErrorResponse(message) ==
    [status |-> 500,
     body |-> [error |-> <<"Unexpected", "error", ":">> \o message,
               status |-> "error",
               processing_time |-> "elapsed"]]

\* The service's exception left to the outer except.
ServiceErrorUncaught(message, md) == UnexpectedErrorResponse(message)

\* The 503 of an exception of the description service.
ServiceErrorResponse(message, md) ==
    [status |-> 503,
     body |-> [error |-> <<"LLM", "service", "unavailable", ":">> \o message,
               status |-> "error",
               metadata |-> md]]

\* The 200.
SuccessResponse(llm, md, stg) ==
    [status |-> 200,
     body |-> [description |-> llm.description,
               metadata |-> [dimensions |-> [width |-> md.width,
                                             height |-> md.height,
                                             aspect_ratio |-> md.aspect_ratio],
                             colors |-> md.dominant_colors,
                             total_pixels |-> md.total_pixels],
               model_info |->
                   IF "error" \in DOMAIN llm
                   THEN [model_used |-> llm.model_used,
                         model_type |-> llm.model_type,
                         local_mode |-> stg.USE_LOCAL_LLM,
                         fallback_reason |-> llm["error"]]
                   ELSE [model_used |-> llm.model_used,
                         model_type |-> llm.model_type,
                         local_mode |-> stg.USE_LOCAL_LLM],
               processing_time |-> "elapsed",
               status |-> "success"]]

--------------------------------------------------------------------------
(* describe_image, step by step. *)

NoRequest ==
    [media_type |-> "multipart/form-data", has_image |-> FALSE,
     image |-> CHOOSE f \in Files : TRUE]

NoCalls ==
    [extract |-> 0, describe |-> 0, remote |-> 0, raised |-> 0, sent |-> <<>>]

InitView ==
    /\ settings \in Settings
    /\ request = NoRequest
    /\ pc = "idle"
    /\ metadata = NoMetadata
    /\ prompt = <<>>
    /\ detected_colors = <<>>
    /\ llm_response = NoResponse
    /\ calls = NoCalls
    /\ response = NoReply

\* A POST /describe/ arrives.
ReceiveRequest ==
    /\ pc = "idle"
    /\ \E req \in Requests : request' = req
    /\ pc' = "serializer"
    /\ UNCHANGED <<settings, metadata, prompt, detected_colors, llm_response,
                   calls, response>>

\* ImageUploadSerializer(data=request.data), serializer.is_valid() and
\* image_file = serializer.validated_data['image'].  request.data raises
\* UnsupportedMediaType for a body that none of the parser classes takes, and
\* validated_data raises KeyError without the field; the outer except turns
\* both into a 500.
SerializerValidate ==
    /\ pc = "serializer"
    /\ IF request.media_type \notin ParsedMediaTypes
       THEN /\ response' = UnexpectedErrorResponse(
                               <<"Unsupported", "media", "type",
                                 request.media_type, "in", "request", ".">>)
            /\ pc' = "done"
       ELSE IF SerializerErrors(request, settings) # <<>>
       THEN /\ response' = InvalidInputResponse(SerializerErrors(request, settings))
            /\ pc' = "done"
       ELSE IF ~request.has_image
       THEN /\ response' = UnexpectedErrorResponse(<<"'image'">>)
            /\ pc' = "done"
       ELSE /\ pc' = "validate_file"
            /\ UNCHANGED response
    /\ UNCHANGED <<settings, request, metadata, prompt, detected_colors,
                   llm_response, calls>>

\* validate_image_file(image_file, settings.MAX_IMAGE_SIZE_MB)
ValidateImageFile ==
    /\ pc = "validate_file"
    /\ LET err == ValidateImageFileError(request.image,
                                         settings.MAX_IMAGE_SIZE_MB)
       IN IF err # <<>>
          THEN /\ response' = InvalidFileResponse(err)
               /\ pc' = "done"
          ELSE /\ pc' = "extract"
               /\ UNCHANGED response
    /\ UNCHANGED <<settings, request, metadata, prompt, detected_colors,
                   llm_response, calls>>

\* extract_image_metadata up to the loop of get_dominant_colors(image,
\* num_colors=5), which starts with image.thumbnail((200, 200)) and
\* list(image.getdata()); pixel data that does not load raises there, which
\* extract_image_metadata turns into a ValueError and the view into a 400.
ExtractBegin ==
    /\ pc = "extract"
    /\ calls' = [calls EXCEPT !.extract = @ + 1]
    /\ IF Loads(request.image)
       THEN /\ pixels' = Thumbnail(request.image.image).pixels
            /\ num_colors' = 5
            /\ filtered_pixels' = <<>>
            /\ scan_i' = 1
            /\ dominant' = <<>>
            /\ dpc' = "scan"
            /\ pc' = "extracting"
            /\ UNCHANGED response
       ELSE /\ response' = ExtractFailedResponse(
                               <<"Failed", "to", "process", "image", ":",
                                 "image", "file", "is", "truncated">>)
            /\ pc' = "done"
            /\ UNCHANGED colorVars
    /\ UNCHANGED <<settings, request, metadata, prompt, detected_colors,
                   llm_response>>

\* get_dominant_colors has returned: extract_image_metadata returns its dict.
ExtractReturn ==
    /\ pc = "extracting"
    /\ dpc = "returned"
    /\ metadata' = Metadata(request.image.image, dominant)
    /\ pc' = "prompt"
    /\ UNCHANGED <<settings, request, prompt, detected_colors, llm_response,
                   calls, response>>
    /\ UNCHANGED colorVars

\* prompt = generate_description_prompt(metadata)
GeneratePrompt ==
    /\ pc = "prompt"
    /\ prompt' = GenerateDescriptionPrompt(metadata)
    /\ pc' = "describe"
    /\ UNCHANGED <<settings, request, metadata, detected_colors, llm_response,
                   calls, response>>

\* LLMService().get_description(prompt) in local mode; get_description
\* wraps what the local path raises, and the view answers it.
DescribeLocal ==
    /\ pc = "describe"
    /\ settings.USE_LOCAL_LLM
    /\ detected_colors' = ExtractDetectedColors(prompt)
    /\ LET result == LocalDescription(prompt)
       IN IF IsRaised(result)
          THEN /\ calls' = [calls EXCEPT !.describe = @ + 1,
                                         !.raised = @ + 1]
               /\ response' = ServiceErrorResponse(
                                  <<"LLM", "service", "error", ":">>
                                      \o result.raised,
                                  metadata)
               /\ pc' = "done"
               /\ UNCHANGED llm_response
          ELSE /\ calls' = [calls EXCEPT !.describe = @ + 1]
               /\ llm_response' = result
               /\ pc' = "respond"
               /\ UNCHANGED response
    /\ UNCHANGED <<settings, request, metadata, prompt>>

\* LLMService().get_description(prompt) in remote mode: one call of the
\* chosen provider, which returns or raises (requests.post, raise_for_status
\* and the reading of the answer can all raise); without a key the canned
\* answer is returned and nothing is sent.  get_description wraps what is
\* raised, and the view answers it.
DescribeRemote ==
    /\ pc = "describe"
    /\ ~settings.USE_LOCAL_LLM
    /\ LET provider == RemoteProvider(settings)
       IN \E raised \in (IF provider = "huggingface_free"
                         THEN {FALSE} ELSE BOOLEAN) :
            /\ calls' = [calls EXCEPT
                           !.describe = @ + 1,
                           !.remote = @ + Len(ProvidersCalled(provider, raised)),
                           !.sent = @ \o ProvidersCalled(provider, raised),
                           !.raised = IF raised THEN @ + 1 ELSE @]
            /\ IF raised
               THEN /\ response' = ServiceErrorResponse(
                                       <<"LLM", "service", "error", ":",
                                         provider, "request", "failed">>,
                                       metadata)
                    /\ pc' = "done"
                    /\ UNCHANGED llm_response
               ELSE /\ llm_response' = RemoteDescription(provider)
                    /\ pc' = "respond"
                    /\ UNCHANGED response
    /\ UNCHANGED <<settings, request, metadata, prompt, detected_colors>>

\* The response data and the 200.
Respond ==
    /\ pc = "respond"
    /\ response' = SuccessResponse(llm_response, metadata, settings)
    /\ pc' = "done"
    /\ UNCHANGED <<settings, request, metadata, prompt, detected_colors,
                   llm_response, calls>>

--------------------------------------------------------------------------
(* The specifications. *)

NameIdle == rgb = <<0, 0, 0>> /\ cname = "idle"

ColorsIdle ==
    /\ pixels = <<>> /\ num_colors = 0 /\ filtered_pixels = <<>>
    /\ scan_i = 1 /\ dominant = <<>> /\ dpc = "idle"

ViewIdle ==
    /\ settings = CHOOSE stg \in Settings : TRUE
    /\ request = NoRequest /\ pc = "off" /\ metadata = NoMetadata
    /\ prompt = <<>> /\ detected_colors = <<>> /\ llm_response = NoResponse
    /\ calls = NoCalls /\ response = NoReply

AnalysisIdle ==
    /\ arg_colors = <<>> /\ arg_metadata = NoParsed
    /\ image_analysis = NoAnalysis /\ smart_description = <<>>
    /\ apc = "idle"

NextAnalysis ==
    \/ CallAnalyzeImageContent /\ UNCHANGED nameVars /\ UNCHANGED colorVars
        /\ UNCHANGED viewVars
    \/ CallGenerateSmartDescription /\ UNCHANGED nameVars
        /\ UNCHANGED colorVars /\ UNCHANGED viewVars

InitSpecAnalysis == InitAnalysis /\ NameIdle /\ ColorsIdle /\ ViewIdle

SpecAnalysis == InitSpecAnalysis /\ [][NextAnalysis]_vars

\* SpecService: get_description is entered with a prompt of any shape.
InitService ==
    /\ settings \in Settings
    /\ prompt \in Prompts
    /\ pc = "describe"
    /\ request = NoRequest /\ metadata = NoMetadata
    /\ detected_colors = <<>> /\ llm_response = NoResponse
    /\ calls = NoCalls /\ response = NoReply

NextService ==
    \/ DescribeLocal /\ UNCHANGED nameVars /\ UNCHANGED colorVars
        /\ UNCHANGED analysisVars
    \/ DescribeRemote /\ UNCHANGED nameVars /\ UNCHANGED colorVars
        /\ UNCHANGED analysisVars

InitSpecService == InitService /\ NameIdle /\ ColorsIdle /\ AnalysisIdle

SpecService == InitSpecService /\ [][NextService]_vars

\* SpecReply: describe_image from the call of get_description on (views.py
\* 62-105), with a prompt of any shape: the call, then the response data
\* built from what it returned.
NextReply ==
    \/ DescribeLocal /\ UNCHANGED nameVars /\ UNCHANGED colorVars
        /\ UNCHANGED analysisVars
    \/ DescribeRemote /\ UNCHANGED nameVars /\ UNCHANGED colorVars
        /\ UNCHANGED analysisVars
    \/ Respond /\ UNCHANGED nameVars /\ UNCHANGED colorVars
        /\ UNCHANGED analysisVars

SpecReply == InitSpecService /\ [][NextReply]_vars

NextName ==
    CallGetColorName /\ UNCHANGED colorVars /\ UNCHANGED viewVars
        /\ UNCHANGED analysisVars

InitSpecName == InitName /\ ColorsIdle /\ ViewIdle /\ AnalysisIdle

SpecName == InitSpecName /\ [][NextName]_vars

NextColors ==
    \/ ScanPixel /\ UNCHANGED nameVars /\ UNCHANGED viewVars
        /\ UNCHANGED analysisVars
    \/ SelectColors /\ UNCHANGED nameVars /\ UNCHANGED viewVars
        /\ UNCHANGED analysisVars

InitSpecColors == InitColors /\ NameIdle /\ ViewIdle /\ AnalysisIdle

SpecColors == InitSpecColors /\ [][NextColors]_vars

Next ==
    \/ ReceiveRequest /\ UNCHANGED nameVars /\ UNCHANGED colorVars
        /\ UNCHANGED analysisVars
    \/ SerializerValidate /\ UNCHANGED nameVars /\ UNCHANGED colorVars
        /\ UNCHANGED analysisVars
    \/ ValidateImageFile /\ UNCHANGED nameVars /\ UNCHANGED colorVars
        /\ UNCHANGED analysisVars
    \/ ExtractBegin /\ UNCHANGED nameVars
        /\ UNCHANGED analysisVars
    \/ ScanPixel /\ UNCHANGED nameVars /\ UNCHANGED viewVars
        /\ UNCHANGED analysisVars
    \/ SelectColors /\ UNCHANGED nameVars /\ UNCHANGED viewVars
        /\ UNCHANGED analysisVars
    \/ ExtractReturn /\ UNCHANGED nameVars
        /\ UNCHANGED analysisVars
    \/ GeneratePrompt /\ UNCHANGED nameVars /\ UNCHANGED colorVars
        /\ UNCHANGED analysisVars
    \/ DescribeLocal /\ UNCHANGED nameVars /\ UNCHANGED colorVars
        /\ UNCHANGED analysisVars
    \/ DescribeRemote /\ UNCHANGED nameVars /\ UNCHANGED colorVars
        /\ UNCHANGED analysisVars
    \/ Respond /\ UNCHANGED nameVars /\ UNCHANGED colorVars
        /\ UNCHANGED analysisVars

Init == InitView /\ NameIdle /\ ColorsIdle /\ AnalysisIdle

Spec == Init /\ [][Next]_vars

--------------------------------------------------------------------------
(* Claims about get_dominant_colors (SpecColors). *)

\* C1: every two distinct swatches returned by get_dominant_colors are at
\* Manhattan RGB distance at least 60.
C1_SwatchesPairwiseDistant ==
    dpc = "returned" =>
        \A i, j \in DOMAIN dominant :
            i # j => Dist(dominant[i].rgb, dominant[j].rgb) >= 60

\* The index at which color c first occurs in a pixel list.
FirstIndex(pxs, c) ==
    CHOOSE i \in DOMAIN pxs : pxs[i] = c /\ \A j \in 1..(i - 1) : pxs[j] # c

\* C1 witness: a call that returned two swatches after turning down a color
\* ranked before the second of them (as frequent, and seen earlier) for
\* being closer than 60 to the first.
C1_Witness ==
    /\ dpc = "returned"
    /\ Len(dominant) = 2
    /\ Len(filtered_pixels) <= num_colors * 10
    /\ \E c \in ColorsOf(pixels) :
           /\ \A k \in DOMAIN dominant : dominant[k].rgb # c
           /\ Dist(dominant[1].rgb, c) < 60
           /\ CountOf(pixels, c) >= CountOf(pixels, dominant[2].rgb)
           /\ FirstIndex(pixels, c) < FirstIndex(pixels, dominant[2].rgb)

C3_PercentageOfAllPixels ==
    dpc = "returned" =>
        \A k \in DOMAIN dominant :
            /\ dominant[k].percentage =
                   PercentTenths(CountOf(pixels, dominant[k].rgb), Len(pixels))
            /\ dominant[k].percentage \in 0..1000

--------------------------------------------------------------------------
(* Claims about get_color_name (SpecName). *)

\* The ladder as the specification words it, on the same h, s, v.
LadderName(r, g, b) ==
    CASE VLess(r, g, b, 1, 5) -> "black"
      [] ~VLess(r, g, b, 1, 5) /\ VGreater(r, g, b, 4, 5)
           /\ SLess(r, g, b, 1, 5) -> "white"
      [] ~VLess(r, g, b, 1, 5) /\ ~VGreater(r, g, b, 4, 5)
           /\ SLess(r, g, b, 1, 5) -> "gray"
      [] OTHER ->
           CASE HLess(r, g, b, 15) \/ HGreater(r, g, b, 345) -> "red"
             [] OTHER ->
                  IF HLess(r, g, b, 45) THEN "orange"
                  ELSE IF HLess(r, g, b, 75) THEN "yellow"
                  ELSE IF HLess(r, g, b, 150) THEN "green"
                  ELSE IF HLess(r, g, b, 270) THEN "purple"
                  ELSE IF HLess(r, g, b, 330) THEN "pink"
                  ELSE "red"

ColorVocabulary ==
    {"black", "white", "gray", "red", "orange", "yellow", "green", "purple",
     "pink"}

\* C4: get_color_name returns, for every input, the name the ordered ladder
\* of the specification gives (black, white, gray, then the hue bounds 15,
\* 345, 45, 75, 150, 270, 330), which is one of the nine names; white for
\* (255,255,255), black for (0,0,0), red for (255,0,0), green for (0,255,0).
C4_NameFollowsLadder ==
    cname \notin {"", "idle"} =>
        /\ cname = LadderName(rgb[1], rgb[2], rgb[3])
        /\ cname \in ColorVocabulary
        /\ (rgb = <<255, 255, 255>> => cname = "white")
        /\ (rgb = <<0, 0, 0>> => cname = "black")
        /\ (rgb = <<255, 0, 0>> => cname = "red")
        /\ (rgb = <<0, 255, 0>> => cname = "green")

\* C4 witness: a saturated, bright color with a hue between 150 and 210
\* degrees has been named.
C4_Witness ==
    /\ cname \notin {"", "idle"}
    /\ ~VLess(rgb[1], rgb[2], rgb[3], 1, 5)
    /\ ~SLess(rgb[1], rgb[2], rgb[3], 1, 5)
    /\ ~HLess(rgb[1], rgb[2], rgb[3], 150)
    /\ HLess(rgb[1], rgb[2], rgb[3], 210)

\* A blue hue: saturation and value at least 0.2, hue in [150, 270).
BlueHue(r, g, b) ==
    /\ ~VLess(r, g, b, 1, 5)
    /\ ~SLess(r, g, b, 1, 5)
    /\ ~HLess(r, g, b, 150)
    /\ HLess(r, g, b, 270)

\* C5 as claimed: colors with blue hues, pure blue (0,0,255) among them, are
\* named "green".
C5_BlueHuesNamedGreen ==
    (cname \notin {"", "idle"} /\ BlueHue(rgb[1], rgb[2], rgb[3])) =>
        cname = "green"

\* C5 amended: the 'blue' branch is never taken, and colors with blue hues
\* (hue in [150, 270), pure blue at 240 among them) are named "purple";
\* "green" is the name of the hues in [75, 150) only.
C5_BlueHuesNamedPurple ==
    cname \notin {"", "idle"} =>
        /\ cname # "blue"
        /\ (BlueHue(rgb[1], rgb[2], rgb[3]) => cname = "purple")
        /\ (rgb = <<0, 0, 255>> => cname = "purple")
        /\ (cname = "green" =>
                ~HLess(rgb[1], rgb[2], rgb[3], 75)
                /\ HLess(rgb[1], rgb[2], rgb[3], 150))

\* C5 witness: pure blue has been named.
C5_Witness == rgb = <<0, 0, 255>> /\ cname \notin {"", "idle"}

--------------------------------------------------------------------------
(* Claims about POST /describe/ (Spec). *)

\* The elements of a sequence.
Range(s) == {s[i] : i \in DOMAIN s}

\* The names of the dominant colors the prompt lists.
ListedNames(md) ==
    {md.dominant_colors[i].name : i \in DOMAIN FirstN(md.dominant_colors, 3)}

\* C6 as claimed: in local mode the color names the content analysis is
\* computed from (the list _extract_detected_colors returns for the prompt
\* of generate_description_prompt) are, as a set, the names of the dominant
\* colors the prompt lists.
C6_DetectedColorsAreListedNames ==
    (settings.USE_LOCAL_LLM /\ calls.describe > 0) =>
        Range(detected_colors) = ListedNames(metadata)

C8_OversizeErrorSaysTooLarge ==
    (pc = "done" /\ request.has_image
     /\ TooLarge(request.image.size, settings.MAX_IMAGE_SIZE_MB)) =>
        /\ response.status = 400
        /\ response.body.status = "error"
        /\ "error" \in DOMAIN response.body
        /\ Contains(response.body.error, <<"too", "large">>)

C10_ServiceErrorIs503WithMetadata ==
    (pc = "done" /\ calls.raised > 0) =>
        /\ response.status = 503
        /\ response.status \notin {200, 500}
        /\ response.body.status = "error"
        /\ "metadata" \in DOMAIN response.body
        /\ response.body.metadata = metadata
        /\ metadata # NoMetadata
        /\ calls.extract = 1

\* C10 witness: the remote provider's call raised and the request has been
\* answered.
C10_Witness ==
    /\ pc = "done"
    /\ ~settings.USE_LOCAL_LLM
    /\ calls.raised = 1
    /\ calls.remote = 1

--------------------------------------------------------------------------
(* Claims about LLMService.get_description (SpecService). *)

\* C11: in local mode get_description never raises, whatever the prompt: it
\* returns a result of model_type 'local' with a non-empty description, and
\* when a step of the local analysis throws, the result is the generic
\* fallback description with model_used 'general_fallback'.
C11_LocalNeverRaises ==
    (settings.USE_LOCAL_LLM /\ pc # "describe") =>
        /\ pc = "respond"
        /\ calls.raised = 0
        /\ response = NoReply
        /\ llm_response.model_type = "local"
        /\ llm_response.description # <<>>
        /\ MetadataRaises(prompt) =>
              /\ llm_response.model_used = "general_fallback"
              /\ llm_response.description = <<Clause("fallback", "")>>
        /\ ~MetadataRaises(prompt) =>
              llm_response.model_used = "intelligent_visual_analyzer"

\* C11 witness: a step of the local analysis threw and get_description
\* returned the fallback.
C11_Witness ==
    /\ settings.USE_LOCAL_LLM
    /\ pc = "respond"
    /\ MetadataRaises(prompt)
    /\ llm_response.model_used = "general_fallback"

--------------------------------------------------------------------------
(* Claims about extract_image_metadata (Spec). *)

\* C13: the metadata holds the width and height of the uploaded image, their
\* quotient rounded to two decimals and their product, also when
\* get_dominant_colors has shrunk the image object in place to fit 200 x 200
\* before it counted pixels.
C13_MetadataOfOriginalImage ==
    metadata # NoMetadata =>
        /\ metadata.width = request.image.image.width
        /\ metadata.height = request.image.image.height
        /\ 2 * Abs(100 * metadata.width
                   - metadata.aspect_ratio * metadata.height)
              <= metadata.height
        /\ metadata.total_pixels = metadata.width * metadata.height

\* C13 witness: the metadata of an image that the thumbnail step has shrunk,
\* so that fewer pixels were counted than the image has.
C13_Witness ==
    /\ metadata # NoMetadata
    /\ request.image.image.width > 200
    /\ Len(pixels) = 200
    /\ metadata.total_pixels = 800
    /\ metadata.aspect_ratio = 20000

--------------------------------------------------------------------------
(* Claims about the content analysis (SpecAnalysis). *)

\* The aspect_ratio _analyze_image_content works with, in hundredths.
RatioOf(md) == IF md.has_ratio THEN md.aspect_ratio ELSE 100

\* C14: _determine_orientation compares the aspect ratio strictly, top to
\* bottom: above 2.0 ultra_wide_panoramic, above 1.6 wide_landscape, above
\* 1.2 standard_landscape, above 0.8 square_format, else portrait_format; so
\* 2.0 is wide_landscape, and 0.8 and 0.5 are portrait_format.
C14_OrientationThresholds ==
    apc \in {"analysed", "described"} =>
        LET r == RatioOf(arg_metadata)
            o == image_analysis.orientation
        IN /\ o = "ultra_wide_panoramic" <=> r > 200
           /\ o = "wide_landscape" <=> (r > 160 /\ r <= 200)
           /\ o = "standard_landscape" <=> (r > 120 /\ r <= 160)
           /\ o = "square_format" <=> (r > 80 /\ r <= 120)
           /\ o = "portrait_format" <=> r <= 80

\* C14 witness: a ratio of exactly 2.0 has been classified wide_landscape.
C14_Witness ==
    /\ apc = "analysed"
    /\ arg_metadata.has_ratio
    /\ arg_metadata.aspect_ratio = 200
    /\ image_analysis.orientation = "wide_landscape"

\* The values _determine_setting and _determine_photography_type return.
SettingValues ==
    {"outdoor_natural", "open_sky_water", "urban_architectural",
     "rural_countryside", "studio_controlled", "general_environment"}

PhotographyTypeValues ==
    {"portrait_photography", "panoramic_photography",
     "architectural_photography", "landscape_photography",
     "artistic_photography", "professional_photography",
     "general_photography"}

\* width * height as _determine_photography_type takes it: 0 when a side is
\* missing or 0.
PixelsOf(md) ==
    IF md.has_size /\ md.width # 0 /\ md.height # 0
    THEN md.width * md.height ELSE 0

\* C15: _analyze_image_content returns a value of the fixed enumeration for
\* each of its five keys, for every colour list (the empty one included) and
\* every metadata (with or without size and aspect ratio), and the defaults
\* balanced_composition, balanced_harmonious, general_environment and
\* general_photography are returned exactly when no earlier rule of their
\* table matches.
C15_AnalysisTotalWithDefaults ==
    apc \in {"analysed", "described"} =>
        LET has(c) == \E i \in DOMAIN arg_colors : arg_colors[i] = c
            n == Len(arg_colors)
            r == RatioOf(arg_metadata)
            total == PixelsOf(arg_metadata)
            a == image_analysis
        IN /\ DOMAIN a = {"orientation", "likely_subject", "mood", "setting",
                          "photography_type"}
           /\ a.orientation \in OrientationKeys
           /\ a.likely_subject \in SubjectKeys
           /\ a.mood \in MoodKeys
           /\ a.setting \in SettingValues
           /\ a.photography_type \in PhotographyTypeValues
           /\ a.likely_subject = "balanced_composition" <=>
                 ~ \/ has("green") /\ has("blue")
                   \/ has("green") /\ has("brown")
                   \/ has("blue") /\ has("white")
                   \/ has("white") /\ has("gray")
                   \/ has("black") /\ n <= 2
                   \/ r < 100 /\ (has("beige") \/ has("tan"))
                   \/ n <= 2
                   \/ has("red") \/ has("orange") \/ has("yellow")
                   \/ has("purple") \/ has("pink")
                   \/ n >= 4
           /\ a.mood = "balanced_harmonious" <=>
                 ~ \/ has("black") /\ n <= 2
                   \/ has("blue") /\ has("white")
                   \/ has("green")
                   \/ has("red") \/ has("orange")
                   \/ has("yellow")
                   \/ has("purple") \/ has("pink")
                   \/ has("white") /\ has("gray")
           /\ a.setting = "general_environment" <=>
                 ~ \/ has("green") /\ has("blue")
                   \/ has("blue") /\ r > 150
                   \/ has("white") /\ has("gray")
                   \/ has("brown") /\ has("green")
                   \/ has("black")
           /\ a.photography_type = "general_photography" <=>
                 ~ \/ r < 90 /\ total > 2000000
                   \/ r > 180
                   \/ has("white") /\ has("gray") /\ r > 120
                   \/ has("green") /\ has("blue")
                   \/ n <= 2
                   \/ total > 10000000

\* C15 witness: a list none of whose names a rule tests, with a metadata that
\* lacks size and aspect ratio, has been given the four defaults.
C15_Witness ==
    /\ apc = "analysed"
    /\ arg_colors = <<"navy", "teal", "silver">>
    /\ ~arg_metadata.has_size /\ ~arg_metadata.has_ratio
    /\ image_analysis.likely_subject = "balanced_composition"
    /\ image_analysis.mood = "balanced_harmonious"
    /\ image_analysis.setting = "general_environment"
    /\ image_analysis.photography_type = "general_photography"

\* The kinds of the fragments of a description, in order.
KindsOf(d) == [i \in DOMAIN d |-> d[i].kind]

\* C16: _generate_smart_description returns a non-empty text made, in this
\* order, of the dimension clause "This is a W x H pixel image", one
\* orientation clause, one subject clause, one mood clause, at most one
\* resolution clause (only when width * height > 2,000,000, the first of
\* > 15M, > 10M, > 5M, > 2M that holds) and at most one photography-type
\* clause (none for general_photography or a type the table lacks).
C16_DescriptionClauseOrder ==
    apc \in {"described", "described_given"} =>
        LET d == smart_description
            md == arg_metadata
            total == IF md.has_size THEN md.width * md.height ELSE 0
            res == IF total > 15000000 THEN <<"15+">>
                   ELSE IF total > 10000000 THEN <<"10+">>
                   ELSE IF total > 5000000 THEN <<"5+">>
                   ELSE IF total > 2000000 THEN <<"standard">>
                   ELSE <<>>
            typed == image_analysis.photography_type \in
                        {"portrait_photography", "panoramic_photography",
                         "architectural_photography", "landscape_photography",
                         "artistic_photography", "professional_photography"}
        IN /\ d # <<>>
           /\ KindsOf(d) =
                 <<"dimension", "orientation", "subject", "mood">>
                 \o (IF res # <<>> THEN <<"resolution">> ELSE <<>>)
                 \o (IF typed THEN <<"photography_type">> ELSE <<>>)
           /\ d[1].known = md.has_size
           /\ md.has_size => (d[1].w = md.width /\ d[1].h = md.height)
           /\ d[2].key \in {image_analysis.orientation, "default"}
           /\ d[3].key \in {image_analysis.likely_subject, "default"}
           /\ d[4].key \in {image_analysis.mood, "default"}
           /\ res # <<>> => d[5].key = res[1]
           /\ typed => d[Len(d)].key = image_analysis.photography_type

\* C16 witness: a description with all six clauses, for more than 10 and not
\* more than 15 million pixels.
C16_Witness ==
    /\ apc = "described"
    /\ arg_metadata.width = 10001 /\ arg_metadata.height = 1000
    /\ Len(smart_description) = 6
    /\ smart_description[5] = Clause("resolution", "10+")
    /\ smart_description[6].kind = "photography_type"

\* C16 witness of the shortest text: an analysis whose photography type the
\* table lacks, for no more than 2 million pixels.
C16_WitnessShort ==
    /\ apc = "described_given"
    /\ image_analysis.photography_type = "macro_photography"
    /\ arg_metadata.width = 2000 /\ arg_metadata.height = 1000
    /\ Len(smart_description) = 4

--------------------------------------------------------------------------
(* Claims about the responses of describe_image (Spec). *)

\* C17: every response of POST /describe/ has HTTP status 200, 400, 503 or
\* 500 and a body whose 'status' is "success" exactly when the HTTP status is
\* 200 and "error" otherwise; every other body than a 200's has an 'error',
\* and a 500's has 'processing_time' as well.
C17_ResponseShape ==
    IF pc # "done" THEN response = NoReply
    ELSE /\ response.status \in {200, 400, 503, 500}
         /\ "status" \in DOMAIN response.body
         /\ response.body.status \in {"success", "error"}
         /\ response.body.status = "success" <=> response.status = 200
         /\ response.status # 200 => "error" \in DOMAIN response.body
         /\ response.status = 500 =>
               "processing_time" \in DOMAIN response.body

\* C17 witness: a request has been answered 500.
C17_Witness ==
    /\ pc = "done"
    /\ response.status = 500
    /\ response.body.status = "error"
    /\ "processing_time" \in DOMAIN response.body

\* The lists with the elements of l in every order.
Reorderings(l) ==
    {[i \in DOMAIN l |-> l[f[i]]] : f \in Permutations(DOMAIN l)}

\* No name twice.
DuplicateFree(l) == \A i, j \in DOMAIN l : i # j => l[i] # l[j]

\* C18: the content analysis does not depend on the order of the colour
\* names: a list without repeated names and each reordering of it, with the
\* same aspect ratio, width and height, get the same five categories.
C18_AnalysisOrderInsensitive ==
    (apc = "analysed" /\ DuplicateFree(arg_colors)) =>
        \A q \in Reorderings(arg_colors) :
            AnalyzeImageContent(q, arg_metadata) = image_analysis

\* C18 witness: a list of three names, whose tables have rules for several
\* of its pairs, has been analysed.
C18_Witness ==
    /\ apc = "analysed"
    /\ arg_colors = <<"white", "blue", "green">>
    /\ Cardinality(Reorderings(arg_colors)) = 6
    /\ image_analysis.likely_subject = "natural_landscape"
    /\ image_analysis.mood = "serene_peaceful"

--------------------------------------------------------------------------
(* Claims about the candidate scan of get_dominant_colors (SpecColors). *)

\* C19: in the scan a pixel is appended to the filtered pool if and only if
\* it is at Manhattan distance at least 30 from each of the up to 100 most
\* recently accepted candidates; hence two pool entries fewer than 101
\* positions apart are at distance at least 30 (entries further apart may be
\* equal).
C19_ScanKeepsWindowDistinct ==
    /\ [](\A i, j \in DOMAIN filtered_pixels :
             (i < j /\ j - i < 101) =>
                 Dist(filtered_pixels[i], filtered_pixels[j]) >= 30)
    /\ [][(dpc = "scan" /\ scan_i' = scan_i + 1) =>
             LET pixel == pixels[scan_i]
                 n == Len(filtered_pixels)
                 accepted ==
                     \A k \in 1..n :
                         k > n - 100 =>
                             Dist(pixel, filtered_pixels[k]) >= 30
             IN filtered_pixels' = IF accepted
                                   THEN filtered_pixels \o <<pixel>>
                                   ELSE filtered_pixels]_vars

\* C19 witness: the pool holds the same color at positions 1 and 102, and the
\* scan has turned down a color that equals a candidate inside the window.
C19_Witness ==
    /\ Len(filtered_pixels) = 102
    /\ filtered_pixels[102] = filtered_pixels[1]
    /\ scan_i = 104
    /\ pixels[103] = filtered_pixels[6]

\* The collection whose colors are counted: the filtered pool when it has
\* more than num_colors * 10 entries, else all pixels.
Counted ==
    IF Len(filtered_pixels) > num_colors * 10 THEN filtered_pixels ELSE pixels

\* How often color c occurs in the counted collection.
Frequency(c) == Cardinality({i \in DOMAIN Counted : Counted[i] = c})

\* The number of colors counted ahead of c: more frequent, or as frequent
\* and met earlier.
RankOf(c) ==
    Cardinality({d \in ColorsOf(Counted) :
                    \/ Frequency(d) > Frequency(c)
                    \/ /\ Frequency(d) = Frequency(c)
                       /\ FirstIndex(Counted, d) < FirstIndex(Counted, c)})

\* C20: get_dominant_colors counts the colors of the filtered pool exactly
\* when the pool has more than num_colors * 10 entries, and of all pixels
\* otherwise (also for a pool of exactly num_colors * 10); every swatch is
\* one of the num_colors * 2 most frequent colors of the counted collection,
\* and the swatches are in non-increasing order of frequency.
C20_CountedCollectionAndTopColors ==
    dpc = "returned" =>
        /\ \A k \in DOMAIN dominant :
              /\ dominant[k].rgb \in ColorsOf(Counted)
              /\ RankOf(dominant[k].rgb) < num_colors * 2
              /\ dominant[k].percentage =
                    PercentTenths(Frequency(dominant[k].rgb), Len(pixels))
        /\ \A k \in 1..(Len(dominant) - 1) :
              /\ Frequency(dominant[k].rgb) >= Frequency(dominant[k + 1].rgb)
              /\ RankOf(dominant[k].rgb) < RankOf(dominant[k + 1].rgb)

\* C20 witness: a pool of exactly num_colors * 10 entries was not taken: the
\* swatch has the share of its color among all 20 pixels.
C20_Witness ==
    /\ dpc = "returned"
    /\ num_colors = 1
    /\ Len(filtered_pixels) = 10
    /\ Len(pixels) = 20
    /\ Len(dominant) = 1
    /\ dominant[1].percentage = 100

\* C20 witness of the num_colors * 2 limit: a color further than 60 from the
\* only swatch was left out, being the fifth most frequent.
C20_WitnessTopColorsOnly ==
    /\ dpc = "returned"
    /\ num_colors = 2
    /\ pixels = CrowdedPixelList
    /\ Len(dominant) = 1
    /\ dominant[1].rgb = Red
    /\ RankOf(Green) = 4

--------------------------------------------------------------------------
(* The fallback reason in the 200 (SpecReply, Spec). *)

==========================================================================
